---- MODULE Spec2Model ----
(***************************************************************************)
(* Weather App (gui.py, weather_fetcher.py): the Tk UI thread, its         *)
(* callback queue, the worker threads that fetch the weather, the two      *)
(* persisted JSON documents and the icon cache.                            *)
(*                                                                         *)
(* Python values: an optional value (None or v) is the sequence <<>> or    *)
(* <<v>>; a timestamp "YYYY-MM-DD HH:MM:SS" is [date, time] with the date  *)
(* a day number (ISO dates sort as their day numbers do); a float with one *)
(* decimal is [k |-> "float", v |-> tenths], an int is [k |-> "int", v].   *)
(***************************************************************************)
EXTENDS Integers, Sequences, FiniteSets, TLC

\* ---------------------------------------------------------------- bounds
\* the threads one run starts: of Spec, of SpecRace, of SpecFav, of SpecPanel
MaxFetches == 1
MaxRace == 2
MaxFavFetches == 1
MaxPanelFetches == 1
\* ... of SpecAlerts and of SpecPersist
MaxAlertFetches == 1
MaxPersistFetches == 1
\* the dates of a forecast the daily summaries are followed on, and how many
\* of them (the earliest) take every shape of day
MaxDates == 6
RichDates == 2

\* ------------------------------------------------------ program constants
MaxDays == 5
HeatMetric == 35
ColdMetric == 0
HeatImperial == 95

UnitSystems == {"metric", "imperial", "standard"}
Cities == {"Paris", "Lagos"}
\* what the user can type into the city entry
Typed == {"", "Lagos "}
IconCodes == {"01d"}

\* The largest element of a non-empty set of integers.
SetMax(S) == CHOOSE x \in S : \A y \in S : y <= x

None == <<>>
Some(x) == <<x>>
Int_(n) == [k |-> "int", v |-> n]
Float1(tenths) == [k |-> "float", v |-> tenths]

\* ------------------------------------------------------------ str helpers
\* str.strip() on the strings the entry and a geolocation answer can hold
Strip(s) ==
    CASE s = "Lagos " -> "Lagos"
      [] s = " " -> ""
      [] OTHER -> s

\* str.title() on the descriptions the provider sends (and the placeholders)
Title(s) ==
    CASE s = "clear sky" -> "Clear Sky"
      [] s = "light rain" -> "Light Rain"
      [] s = "light intensity drizzle" -> "Light Intensity Drizzle"
      [] s = "shower snow" -> "Shower Snow"
      [] OTHER -> s

\* str.lower() of a description: the provider's descriptions are lower case
\* but for the placeholder "N/A"
Lower(s) == IF s = "N/A" THEN "n/a" ELSE s

\* "rain" in desc or "drizzle" in desc or "shower" in desc
HasWetWord(s) == s \in {"light rain", "light intensity drizzle", "shower snow"}

\* str(x) of a non-negative integer, then of a Python number
Digits(n) == ToString(n)
PyNum(x) ==
    IF x.k = "int"
    THEN (IF x.v < 0 THEN "-" \o Digits(0 - x.v) ELSE Digits(x.v))
    ELSE LET a == IF x.v < 0 THEN 0 - x.v ELSE x.v
         IN (IF x.v < 0 THEN "-" ELSE "") \o Digits(a \div 10) \o "." \o Digits(a % 10)
\* f"{v}" of an optional number: None formats as "None"
PyStr(o) == IF o = None THEN "None" ELSE PyNum(o[1])

\* dict.get(key, default) on a normalized record: the key is always present,
\* so the default is never used and a null value comes back as None
GetOrDefault(o, default) == o

\* ------------------------------------------------------------ persistence
\* A file is missing, unreadable (it holds v but open() raises), corrupt (not
\* the JSON the loader expects) or holds a value.
FileMissing(empty) == [st |-> "missing", v |-> empty]
FileUnreadable(v) == [st |-> "unreadable", v |-> v]
FileCorrupt(empty) == [st |-> "corrupt", v |-> empty]
FileOk(v) == [st |-> "ok", v |-> v]

\* open(path, "w") then json.dump: the open can fail (the file is left as it
\* was) or the dump can fail after the open truncated the file.
WriteOutcomes == {"ok", "open_fails", "dump_fails"}
WriteFile(file, v, empty, w) ==
    CASE w = "ok" -> FileOk(v)
      [] w = "open_fails" -> file
      [] OTHER -> FileCorrupt(empty)

\* (a save that writes nothing)
save_favorites_noop(file, favs, w) == file
save_last_city_noop(file, city, w) == file

\* (a loader that hands out whatever the file holds)
load_favorites_unguarded(file) == file.v

load_favorites(file) == IF file.st = "ok" THEN file.v ELSE <<>>
save_favorites(file, favs, w) == WriteFile(file, favs, <<>>, w)
load_last_city(file) == IF file.st = "ok" THEN Some(file.v) ELSE None
save_last_city(file, city, w) == WriteFile(file, city, "", w)

\* Python truthiness of an optional string
Truthy(o) == o # None /\ o[1] # ""

\* ------------------------------------------------- weather_fetcher.py
\* (obj or {}).get(key): obj is an optional record
GetIn(obj, key) == IF obj = None THEN None ELSE obj[1][key]

\* The provider's current-weather documents the model draws from.
FullMain(t) == Some([temp |-> Some(Int_(t)), humidity |-> Some(Int_(50)), pressure |-> Some(Int_(1013))])
FullWeather(d) == Some([description |-> Some(d), icon |-> Some("01d")])
FullSys == Some([country |-> Some("XX"), sunrise |-> Some(Int_(6)), sunset |-> Some(Int_(18))])
FullWind == Some([speed |-> Some(Int_(3))])
FullDoc(city) ==
    [name |-> Some(city), main |-> FullMain(36), weather |-> FullWeather("clear sky"),
     wind |-> FullWind, sys |-> FullSys, timezone |-> Some(Int_(3600))]
BareDoc ==
    [name |-> None, main |-> None, weather |-> None, wind |-> None, sys |-> None,
     timezone |-> None]
WeatherDocs(city, bare) == {FullDoc(city)} \cup (IF bare THEN {BareDoc} ELSE {})

\* The documents the notifications are followed on: temperatures on both sides
\* of every threshold (integers, and floats in tenths) or none at all under a
\* clear sky, and every kind of description at 36 degrees.
AlertTemps ==
    {None, Some(Float1(349)), Some(Float1(350))}
        \cup {Some(Int_(t)) : t \in {0 - 1, 0, 1, 34, 35, 36, 94, 95}}
AlertDescs == {"clear sky", "light rain", "light intensity drizzle", "shower snow"}
AlertDoc(city, t, d) ==
    [FullDoc(city) EXCEPT
        !.main = Some([temp |-> t, humidity |-> Some(Int_(50)), pressure |-> Some(Int_(1013))]),
        !.weather = FullWeather(d)]
AlertDocs(city) ==
    {AlertDoc(city, t, "clear sky") : t \in AlertTemps}
        \cup {AlertDoc(city, Some(Int_(36)), d) : d \in AlertDescs}

OrElse(o, default) == IF o = None THEN default ELSE o[1]

\* (a normalization that puts zero where the provider sent no temperature)
fetch_weather_by_city_zero(data, city) ==
    [ city |-> IF Truthy(data.name) THEN data.name[1] ELSE city,
      country |-> OrElse(GetIn(data.sys, "country"), ""),
      temperature |-> Some(OrElse(GetIn(data.main, "temp"), Int_(0))),
      humidity |-> GetIn(data.main, "humidity"),
      pressure |-> GetIn(data.main, "pressure"),
      description |-> OrElse(GetIn(data.weather, "description"), "N/A"),
      icon |-> OrElse(GetIn(data.weather, "icon"), ""),
      wind_speed |-> GetIn(data.wind, "speed"),
      sunrise |-> GetIn(data.sys, "sunrise"),
      sunset |-> GetIn(data.sys, "sunset"),
      timezone |-> OrElse(data.timezone, Int_(0)) ]

fetch_weather_by_city(data, city) ==
    [ city |-> IF Truthy(data.name) THEN data.name[1] ELSE city,
      country |-> OrElse(GetIn(data.sys, "country"), ""),
      temperature |-> GetIn(data.main, "temp"),
      humidity |-> GetIn(data.main, "humidity"),
      pressure |-> GetIn(data.main, "pressure"),
      description |-> OrElse(GetIn(data.weather, "description"), "N/A"),
      icon |-> OrElse(GetIn(data.weather, "icon"), ""),
      wind_speed |-> GetIn(data.wind, "speed"),
      sunrise |-> GetIn(data.sys, "sunrise"),
      sunset |-> GetIn(data.sys, "sunset"),
      timezone |-> OrElse(data.timezone, Int_(0)) ]

\* The current-weather documents fetch_weather_by_city is followed on: every
\* object there, absent, or there without some of its keys.
MainValues == {None, FullMain(36), Some([temp |-> None, humidity |-> Some(Int_(50)), pressure |-> None])}
WeatherValues == {None, FullWeather("clear sky"), Some([description |-> None, icon |-> Some("01d")])}
WindValues == {None, FullWind}
SysValues == {None, FullSys, Some([country |-> None, sunrise |-> Some(Int_(6)), sunset |-> None])}
AllWeatherDocs ==
    {[name |-> n, main |-> m, weather |-> w, wind |-> wi, sys |-> sy, timezone |-> tz] :
        n \in {None, Some("Paris")}, m \in MainValues, w \in WeatherValues, wi \in WindValues,
        sy \in SysValues, tz \in {None, Some(Int_(3600))}}

\* The provider's forecast documents: the "list" array of raw items.
Noon == "12:00:00"
RawItem(day, time, t, d) ==
    [dt_txt |-> Some([date |-> day, time |-> time]),
     main |-> Some([temp |-> Some(Int_(t)), humidity |-> Some(Int_(50))]),
     weather |-> Some([description |-> Some(d), icon |-> Some("01d")])]
ForecastDocs ==
    { <<RawItem(1, "09:00:00", 10, "clear sky"), RawItem(1, Noon, 12, "light rain")>> }

ForecastItem(item) ==
    [ dt_txt |-> item.dt_txt,
      date |-> IF item.dt_txt # None THEN Some(item.dt_txt[1].date) ELSE None,
      temperature |-> GetIn(item.main, "temp"),
      humidity |-> GetIn(item.main, "humidity"),
      description |-> OrElse(GetIn(item.weather, "description"), "N/A"),
      icon |-> OrElse(GetIn(item.weather, "icon"), "") ]

fetch_forecast_by_city(list) == [i \in 1..Len(list) |-> ForecastItem(list[i])]

\* A JSON value of a geolocation answer: null (or no such key), a string, a number.
JNull == [k |-> "null", s |-> ""]
JStr(s) == [k |-> "str", s |-> s]
JNum(s) == [k |-> "num", s |-> s]
\* Python truthiness of such a value
JTruthy(v) ==
    CASE v.k = "null" -> FALSE
      [] v.k = "str" -> v.s # ""
      [] OTHER -> v.s # "0"

\* What one provider does: the request or the parse raises, or it answers an
\* object with these values under "city", "region" and "city_name".
Raises == [raises |-> TRUE, city |-> JNull, region |-> JNull, city_name |-> JNull]
Answer(city, region, city_name) ==
    [raises |-> FALSE, city |-> city, region |-> region, city_name |-> city_name]
\* the answers of a run of the application
ProviderAnswers ==
    {Raises, Answer(JStr(""), JNull, JNull)} \cup {Answer(JStr(c), JNull, JNull) : c \in Cities}
\* the answers detect_city_via_ip is followed on
CityValues == {JNull, JStr(""), JStr(" "), JStr("Paris"), JStr("Lagos "), JNum("5")}
RegionValues == {JNull, JStr(" "), JStr("Lagos ")}
CityNameValues == {JNull, JStr("Paris")}
AllProviderAnswers ==
    {Raises} \cup {Answer(c, r, n) : c \in CityValues, r \in RegionValues, n \in CityNameValues}

Endpoints == <<"ip-api.com", "ipinfo.io", "ipapi.co">>

\* one pass of the loop body: the city this provider yields, None when the pass
\* ends in "continue" or falls through
CityOf(a) ==
    IF a.raises THEN None
    ELSE LET city == IF JTruthy(a.city) THEN a.city
                     ELSE IF JTruthy(a.region) THEN a.region
                     ELSE a.city_name
         IN IF JTruthy(city) /\ city.k = "str" /\ Strip(city.s) # ""
            THEN Some(Strip(city.s))
            ELSE None

RECURSIVE DetectFrom(_, _)
DetectFrom(answers, i) ==
    IF i > Len(Endpoints) THEN None
    ELSE IF CityOf(answers[i]) # None THEN CityOf(answers[i])
    ELSE DetectFrom(answers, i + 1)
detect_city_via_ip(answers) == DetectFrom(answers, 1)

\* ------------------------------------------------------- gui.py: rendering
\* ("deg" stands for the degree sign, "--" for the dash placeholder)
unit_label(u) ==
    CASE u = "metric" -> "degC"
      [] u = "imperial" -> "degF"
      [] u = "standard" -> "K"
      [] OTHER -> "deg"

\* sorted(by_date.keys()): the dates of the entries that carry one, ascending
RECURSIVE SortedDates(_)
SortedDates(S) ==
    IF S = {} THEN <<>>
    ELSE LET m == CHOOSE x \in S : \A y \in S : x <= y
         IN <<m>> \o SortedDates(S \ {m})

Take(s, n) == IF Len(s) <= n THEN s ELSE SubSeq(s, 1, n)

by_date(forecast, d) == SelectSeq(forecast, LAMBDA e : e.date = Some(d))
days(forecast) ==
    Take(SortedDates({forecast[i].date[1] : i \in {j \in 1..Len(forecast) : forecast[j].date # None}}),
         MaxDays)

RECURSIVE SumTemps(_)
SumTemps(temps) == IF temps = <<>> THEN 0 ELSE Head(temps)[1].v + SumTemps(Tail(temps))

\* (a mean cut after its first decimal)
Round1_floor(total, n) == (10 * total) \div n

\* round(total / n, 1) of integer temperatures, in tenths; a tie (possible only
\* for n a multiple of 4) goes to the even tenth
Round1(total, n) ==
    LET q == (10 * total) \div n
        r == (10 * total) % n
    IN IF 2 * r < n THEN q
       ELSE IF 2 * r > n THEN q + 1
       ELSE IF q % 2 = 0 THEN q ELSE q + 1

Average(entries) ==
    LET temps == SelectSeq([i \in 1..Len(entries) |-> entries[i].temperature], LAMBDA t : t # None)
    IN IF temps = <<>> THEN None ELSE Some(Float1(Round1(SumTemps(temps), Len(temps))))

\* (a summary that averages whether or not the day has an entry at noon)
Summary_average(forecast, d) ==
    LET entries == by_date(forecast, d)
    IN [date |-> d, temperature |-> Average(entries),
        description |-> entries[1].description, icon |-> entries[1].icon]

\* one summary per day: the first entry at 12:00:00, else the average
Summary(forecast, d) ==
    LET entries == by_date(forecast, d)
        noons == SelectSeq(entries, LAMBDA e : e.dt_txt[1].time = Noon)
    IN IF noons # <<>>
       THEN [date |-> d, temperature |-> Head(noons).temperature,
             description |-> Head(noons).description, icon |-> Head(noons).icon]
       ELSE [date |-> d, temperature |-> Average(entries),
             description |-> entries[1].description, icon |-> entries[1].icon]

summaries(forecast) == [i \in 1..Len(days(forecast)) |-> Summary(forecast, days(forecast)[i])]

\* the day panels: date, temperature text, description
DayPanel(s, u, image) ==
    [date |-> s.date,
     icon |-> image,
     temp |-> <<PyStr(GetOrDefault(s.temperature, "--")), unit_label(u)>>,
     desc |-> Title(s.description)]

\* the "Next:" label: the first entry that carries a timestamp
NextLabel(forecast, u) ==
    LET stamped == SelectSeq(forecast, LAMBDA e : e.dt_txt # None)
    IN IF stamped = <<>> THEN None
       ELSE Some([dt_txt |-> Head(stamped).dt_txt[1],
                  temp |-> <<PyStr(Head(stamped).temperature), unit_label(u)>>,
                  desc |-> Head(stamped).description])

\* the graph: the days that have a temperature, with their average
Graph(forecast) ==
    LET ds == SelectSeq(days(forecast), LAMBDA d : Average(by_date(forecast, d)) # None)
    IN [i \in 1..Len(ds) |-> [date |-> ds[i], val |-> Average(by_date(forecast, ds[i]))[1]]]

\* (a threshold that the temperature has to exceed)
NumGE_strict(x, n) == IF x.k = "int" THEN x.v > n ELSE x.v > 10 * n
\* float(temp_val) >= n
NumGE(x, n) == IF x.k = "int" THEN x.v >= n ELSE x.v >= 10 * n
NumLE(x, n) == IF x.k = "int" THEN x.v <= n ELSE x.v <= 10 * n

\* the notification dialogs one render raises, under unit system u
Notifications(cur, u) ==
    LET desc == Lower(cur.description)
        t == cur.temperature
    IN (IF desc # "" /\ HasWetWord(desc) THEN {"Rain alert"} ELSE {})
       \cup (IF t = None THEN {}
             ELSE IF u = "metric"
                  THEN (IF NumGE(t[1], HeatMetric) THEN {"Heat alert"}
                        ELSE IF NumLE(t[1], ColdMetric) THEN {"Cold alert"} ELSE {})
                  ELSE IF u = "imperial"
                       THEN (IF NumGE(t[1], HeatImperial) THEN {"Heat alert"} ELSE {})
                       ELSE {})

\* download_icon: nothing for an empty code; the cached file when there is
\* one; else a download, which stores the file when it succeeds (ok)
download_icon(cache, code, ok) ==
    IF code = "" THEN [image |-> "", cache |-> cache]
    ELSE IF code \in cache THEN [image |-> code, cache |-> cache]
    ELSE IF ok THEN [image |-> code, cache |-> cache \cup {code}]
    ELSE [image |-> "", cache |-> cache]

\* the calls of download_icon one render makes, in order: the current icon,
\* then the icon of every day summary
RECURSIVE CacheAfter(_, _, _)
CacheAfter(cache, codes, outs) ==
    IF codes = <<>> THEN cache
    ELSE CacheAfter(download_icon(cache, Head(codes), Head(outs)).cache, Tail(codes), Tail(outs))
RECURSIVE Images(_, _, _)
Images(cache, codes, outs) ==
    IF codes = <<>> THEN <<>>
    ELSE <<download_icon(cache, Head(codes), Head(outs)).image>>
         \o Images(download_icon(cache, Head(codes), Head(outs)).cache, Tail(codes), Tail(outs))
\* whether one of the calls goes to the network
Downloads(cache, codes) == \E i \in 1..Len(codes) : codes[i] # "" /\ codes[i] \notin cache

IconCalls(cur, forecast) ==
    <<cur.icon>> \o [i \in 1..Len(summaries(forecast)) |-> summaries(forecast)[i].icon]

\* what the current card, the forecast strip and the graph show
Shown(cur, forecast, u, images) ==
    [ city |-> cur.city \o (IF cur.country # "" THEN ", " \o cur.country ELSE ""),
      desc |-> Title(IF cur.description # "" THEN cur.description ELSE "--"),
      temp |-> <<"Temperature: ", PyStr(GetOrDefault(cur.temperature, "--")), unit_label(u)>>,
      hum |-> <<"Humidity: ", PyStr(GetOrDefault(cur.humidity, "--")), "%">>,
      icon |-> images[1],
      next |-> NextLabel(forecast, u),
      days |-> [i \in 1..Len(summaries(forecast)) |->
                  DayPanel(summaries(forecast)[i], u, images[i + 1])],
      graph |-> Graph(forecast) ]

NothingShown ==
    [ city |-> "--", desc |-> "--", temp |-> <<"Temperature: ", "--", "">>,
      hum |-> <<"Humidity: ", "--", "">>,
      icon |-> "", next |-> None, days |-> <<>>, graph |-> <<>> ]

\* ------------------------------------------------------------------ state
VARIABLES
    units,          \* self.units: the unit selector
    current_city,   \* self.current_city (optional)
    city_var,       \* the text of the city entry
    favs_var,       \* the selection of the favorites combobox
    favorites,      \* self.favorites
    favFile,        \* favorites.json
    lastFile,       \* last_city.json
    icons,          \* the icon codes cached under icons/
    status,         \* the status label
    shown,          \* the current card, the forecast strip and the graph
    panel,          \* the cities that have a Details button in an open favorites panel
    startup,        \* which startup timer is still to fire
    fetches,        \* the worker threads, in the order they were started
    queue,          \* the callbacks handed to after(0, ...), not yet run
    outcome,        \* per fetch: what its completion callback did (history)
    finished,       \* the fetches in the order their workers ended (history)
    ev,             \* the step just taken: which code ran on which thread (history)
    env,            \* the faults the environment of this run can produce
    call            \* the call of a function followed on its own: its input, its progress, its result

uiVars == <<units, current_city, city_var, favs_var, favorites, favFile, lastFile,
            icons, status, shown, panel, startup>>
vars == <<units, current_city, city_var, favs_var, favorites, favFile, lastFile,
          icons, status, shown, panel, startup, fetches, queue, outcome, finished, ev, env, call>>

NoCur == fetch_weather_by_city(BareDoc, "")

\* the record of a step: the code that ran (op), its thread, the network requests
\* it made (net), the fetch it belongs to (f), the dialogs it showed (dlg), the
\* outcome of its write of favorites.json / last_city.json ("" for no write),
\* and for a render: its save_last argument, the record rendered (cur), the unit
\* system that was sent with the request for cur (sent) and whether the forecast
\* request of the fetch failed (fc)
Ev(op, th, net, f) ==
    [op |-> op, thread |-> th, net |-> net, f |-> f, dlg |-> {}, wfav |-> "", wlast |-> "",
     save_last |-> FALSE, sent |-> "", cur |-> NoCur, fc |-> ""]

\* no function is followed on its own
NoCall == [fn |-> ""]

NoOutcome == [res |-> "", fc |-> ""]
SetOutcome(f, res, fc) == outcome' = [outcome EXCEPT ![f] = [res |-> res, fc |-> fc]]

InitFavFiles == {FileMissing(<<>>), FileOk(<<"Paris">>)}
InitLastFiles == {FileMissing(""), FileOk("Paris")}

\* an environment: the outcomes a file write can have, those a download of an
\* icon can have, whether the provider sends documents with nothing in them,
\* how many threads the run starts, and whether the provider sends the
\* documents the notifications are followed on
Env(writes, downloads, bare, max) ==
    [writes |-> writes, downloads |-> downloads, bare |-> bare, max |-> max, alerts |-> FALSE]

\* the current-weather documents the provider can answer in this run
DocsFor(city) == WeatherDocs(city, env.bare) \cup (IF env.alerts THEN AlertDocs(city) ELSE {})

InitWith(e, favFiles, lastFiles, timer) ==
    /\ env = e
    /\ units = "metric"
    /\ current_city = None
    /\ city_var = ""
    /\ favs_var = ""
    /\ favFile \in favFiles
    /\ favorites = load_favorites(favFile)
    /\ lastFile \in lastFiles
    /\ icons = {}
    /\ status = "Ready"
    /\ shown = NothingShown
    /\ panel = {}
    /\ startup = timer
    /\ fetches = <<>>
    /\ queue = <<>>
    /\ outcome = <<>>
    /\ finished = <<>>
    /\ ev = Ev("__init__", "ui", {}, 0)

\* ---------------------------------------------------- completion handlers
\* (an error handler that also blanks the current card)
_handle_error_clears(cb, th) ==
    /\ status' = "Error"
    /\ current_city' = None
    /\ shown' = NothingShown
    /\ SetOutcome(cb.f, "errored", cb.fc)
    /\ ev' = [Ev("_handle_error", th, {}, cb.f) EXCEPT
                !.dlg = {IF cb.err = "Network error" THEN "No Internet" ELSE "Error"}]
    /\ UNCHANGED <<units, city_var, favs_var, favorites, favFile, lastFile, icons, panel, startup>>

\* (an error handler that leaves the status as it is)
_handle_error_silent(cb, th) ==
    /\ SetOutcome(cb.f, "errored", cb.fc)
    /\ ev' = [Ev("_handle_error", th, {}, cb.f) EXCEPT
                !.dlg = {IF cb.err = "Network error" THEN "No Internet" ELSE "Error"}]
    /\ UNCHANGED uiVars

\* _handle_error: a modal error, then the status
_handle_error(cb, th) ==
    /\ status' = "Error"
    /\ SetOutcome(cb.f, "errored", cb.fc)
    /\ ev' = [Ev("_handle_error", th, {}, cb.f) EXCEPT
                !.dlg = {IF cb.err = "Network error" THEN "No Internet" ELSE "Error"}]
    /\ UNCHANGED <<units, current_city, city_var, favs_var, favorites, favFile, lastFile,
                   icons, shown, panel, startup>>

\* the lambda of _fetch_ip_and_update's except branch: messagebox.showwarning
ShowLocationWarning(cb, th) ==
    /\ SetOutcome(cb.f, "warned", cb.fc)
    /\ ev' = [Ev("showwarning", th, {}, cb.f) EXCEPT !.dlg = {"Location detect"}]
    /\ UNCHANGED uiVars

\* _update_ui(cur, forecast, save_last), run on thread th for fetch f after the
\* requests net0 of the same callback; w is the outcome of the write of
\* last_city.json, outs[i] that of the download the i-th call of download_icon
\* makes when it has to
_update_ui(f, cur, forecast, save_last, th, net0, sent, fc, w, outs) ==
    LET city == IF cur.city # "" THEN cur.city ELSE Strip(city_var)
        saves == save_last /\ city # ""
        codes == IconCalls(cur, forecast)
    IN /\ current_city' = Some(city)
       /\ lastFile' = IF saves THEN save_last_city(lastFile, city, w) ELSE lastFile
       /\ icons' = CacheAfter(icons, codes, outs)
       /\ shown' = Shown(cur, forecast, units, Images(icons, codes, outs))
       /\ status' = "Last updated"
       /\ SetOutcome(f, "rendered", fc)
       /\ ev' = [Ev("_update_ui", th, net0 \cup (IF Downloads(icons, codes) THEN {"icon"} ELSE {}), f)
                   EXCEPT !.dlg = Notifications(cur, units),
                          !.wlast = IF saves THEN w ELSE "",
                          !.save_last = save_last, !.sent = sent, !.cur = cur, !.fc = fc]
       /\ UNCHANGED <<units, city_var, favs_var, favorites, favFile, panel, startup>>

\* a render under every outcome the environment has for its write and downloads
Render(f, cur, forecast, save_last, th, net0, sent, fc) ==
    \E w \in (IF save_last THEN env.writes ELSE {"ok"}) :
    \E outs \in [1..Len(IconCalls(cur, forecast)) -> env.downloads] :
        _update_ui(f, cur, forecast, save_last, th, net0, sent, fc, w, outs)

\* the lambda of _fetch_ip_and_update's last line: the forecast request, made
\* by the thread that runs the callback, with the units of that moment; when
\* the request raises, the callback ends there
IpLambda(cb, th) ==
    \/ /\ SetOutcome(cb.f, "raised", "fail")
       /\ ev' = [Ev("ip_lambda", th, {"forecast"}, cb.f) EXCEPT !.fc = "fail", !.cur = cb.cur,
                                                               !.sent = cb.sent]
       /\ UNCHANGED uiVars
    \/ \E list \in ForecastDocs :
          Render(cb.f, cb.cur, fetch_forecast_by_city(list), TRUE, th, {"forecast"}, cb.sent, "ok")

\* what runs when the callback cb is called on thread th
Dispatch(cb, th) ==
    CASE cb.fn = "_handle_error" -> _handle_error(cb, th)
      [] cb.fn = "showwarning" -> ShowLocationWarning(cb, th)
      [] cb.fn = "ip_lambda" -> IpLambda(cb, th)
      [] OTHER -> Render(cb.f, cb.cur, cb.forecast, cb.save_last, th, {}, cb.sent, cb.fc)

Callback(fn, f, cur, forecast, save_last, err, sent, fc) ==
    [fn |-> fn, f |-> f, cur |-> cur, forecast |-> forecast, save_last |-> save_last,
     err |-> err, sent |-> sent, fc |-> fc]

\* (a worker that calls the handler itself)
after_direct(cb, net) ==
    /\ Dispatch(cb, "worker")
    /\ UNCHANGED queue
\* (a queue that runs the newest callback first)
after_lifo(cb, net) ==
    /\ queue' = <<cb>> \o queue
    /\ ev' = Ev("after", "worker", net, cb.f)
    /\ UNCHANGED uiVars
    /\ UNCHANGED outcome

\* self.after(0, cb) called by a worker after the requests net: cb joins the
\* queue of the UI thread and nothing of the UI changes
after(cb, net) ==
    /\ queue' = Append(queue, cb)
    /\ ev' = Ev("after", "worker", net, cb.f)
    /\ UNCHANGED uiVars
    /\ UNCHANGED outcome

\* the UI thread runs the oldest callback of its queue
RunCallback ==
    /\ queue # <<>>
    /\ queue' = Tail(queue)
    /\ Dispatch(Head(queue), "ui")
    /\ UNCHANGED <<fetches, finished, env, call>>

\* --------------------------------------------------------- worker threads
NewFetch(kind, city, save_last) ==
    [kind |-> kind, city |-> city, save_last |-> save_last, pc |-> "units", units |-> ""]

\* threading.Thread(target=..., daemon=True).start()
StartThread(kind, city, save_last) ==
    /\ Len(fetches) < env.max
    /\ fetches' = Append(fetches, NewFetch(kind, city, save_last))
    /\ outcome' = Append(outcome, NoOutcome)
    /\ UNCHANGED <<queue, finished, env, call>>

_load_weather_async(city, save_last) ==
    /\ status' = "Fetching..."
    /\ StartThread("async", city, save_last)

NoThread == UNCHANGED <<fetches, queue, outcome, finished, env, call>>

\* the worker's first statement: units = self.units.get()
ReadUnits(f) ==
    /\ f \in DOMAIN fetches
    /\ fetches[f].pc = "units"
    /\ fetches' = [fetches EXCEPT ![f].pc = "fetch", ![f].units = units]
    /\ ev' = Ev("units.get", "worker", {}, f)
    /\ UNCHANGED uiVars
    /\ UNCHANGED <<queue, outcome, finished, env, call>>

Errors == {"Network error", "API error"}

WorkerEnds(f) ==
    /\ fetches' = [fetches EXCEPT ![f].pc = "done", ![f].units = "", ![f].save_last = FALSE]
    /\ finished' = Append(finished, f)
    /\ UNCHANGED <<env, call>>

\* _load_weather_thread after the read of the units: the current-weather
\* request, the forecast request (a failure gives []), and the callback
_load_weather_thread(f) ==
    /\ f \in DOMAIN fetches
    /\ fetches[f].kind = "async"
    /\ fetches[f].pc = "fetch"
    /\ WorkerEnds(f)
    /\ LET t == fetches[f]
       IN \/ \E err \in Errors :
               after(Callback("_handle_error", f, NoCur, <<>>, t.save_last, err, t.units, ""),
                     {"weather"})
          \/ \E doc \in DocsFor(t.city) :
               \/ after(Callback("_update_ui", f, fetch_weather_by_city(doc, t.city), <<>>,
                                 t.save_last, "", t.units, "fail"), {"weather", "forecast"})
               \/ \E list \in ForecastDocs :
                    after(Callback("_update_ui", f, fetch_weather_by_city(doc, t.city),
                                   fetch_forecast_by_city(list), t.save_last, "", t.units, "ok"),
                          {"weather", "forecast"})

\* _fetch_ip_and_update after the read of the units: fetch_weather_by_ip
\* (detect_city_via_ip, then the current-weather request), and the callback
_fetch_ip_and_update(f) ==
    /\ f \in DOMAIN fetches
    /\ fetches[f].kind = "ip"
    /\ fetches[f].pc = "fetch"
    /\ WorkerEnds(f)
    /\ LET t == fetches[f]
           warning == Callback("showwarning", f, NoCur, <<>>, TRUE, "", t.units, "")
       IN \E answers \in [1..Len(Endpoints) -> ProviderAnswers] :
            LET city == detect_city_via_ip(answers)
            IN IF ~Truthy(city)
               THEN after(warning, {"ip"})
               ELSE \/ after(warning, {"ip", "weather"})
                    \/ \E doc \in DocsFor(city[1]) :
                         after(Callback("ip_lambda", f, fetch_weather_by_city(doc, city[1]), <<>>,
                                        TRUE, "", t.units, ""), {"ip", "weather"})

\* ------------------------------------------------------------- UI actions
\* a step of the UI thread that is no handler, no dialog, no request, no write
UiStep(op) == ev' = Ev("", "ui", {}, 0)
Dialog(op, title) == ev' = [Ev(op, "ui", {}, 0) EXCEPT !.dlg = {title}]

\* the user edits the city entry
TypeCity(s) ==
    /\ s # city_var
    /\ city_var' = s
    /\ UiStep("type")
    /\ UNCHANGED <<units, current_city, favs_var, favorites, favFile, lastFile, icons, status,
                   shown, panel, startup>>
    /\ NoThread

SearchBody(op) ==
    LET city == Strip(city_var)
    IN IF city = ""
       THEN /\ Dialog(op, "Input")
            /\ UNCHANGED status
            /\ NoThread
       ELSE /\ _load_weather_async(city, TRUE)
            /\ UiStep(op)

search ==
    /\ SearchBody("search")
    /\ UNCHANGED <<units, current_city, city_var, favs_var, favorites, favFile, lastFile, icons,
                   shown, panel, startup>>

refresh ==
    /\ IF Truthy(current_city)
       THEN _load_weather_async(current_city[1], TRUE) /\ UiStep("refresh")
       ELSE LET last == load_last_city(lastFile)
            IN IF Truthy(last)
               THEN _load_weather_async(last[1], TRUE) /\ UiStep("refresh")
               ELSE SearchBody("refresh")
    /\ UNCHANGED <<units, current_city, city_var, favs_var, favorites, favFile, lastFile, icons,
                   shown, panel, startup>>

\* the user picks u in the units combobox
_units_changed(u) ==
    /\ units' = u
    /\ IF Truthy(current_city)
       THEN _load_weather_async(current_city[1], TRUE)
       ELSE UNCHANGED status /\ NoThread
    /\ UiStep("_units_changed")
    /\ UNCHANGED <<current_city, city_var, favs_var, favorites, favFile, lastFile, icons,
                   shown, panel, startup>>

InSeq(x, seq) == \E i \in 1..Len(seq) : seq[i] = x

\* the user picks city in the favorites combobox
_on_fav_selected(city) ==
    /\ InSeq(city, favorites)
    /\ favs_var' = city
    /\ IF city # ""
       THEN city_var' = city /\ _load_weather_async(city, TRUE)
       ELSE UNCHANGED <<city_var, status>> /\ NoThread
    /\ UiStep("_on_fav_selected")
    /\ UNCHANGED <<units, current_city, favorites, favFile, lastFile, icons, shown, panel, startup>>

\* list.remove(x): the first occurrence goes
Remove(seq, x) ==
    LET i == CHOOSE j \in 1..Len(seq) : seq[j] = x /\ \A k \in 1..(j - 1) : seq[k] # x
    IN SubSeq(seq, 1, i - 1) \o SubSeq(seq, i + 1, Len(seq))

\* the write outcome a step that writes nothing is listed under
SafeWrite == CHOOSE w \in env.writes : TRUE

\* (an add that does not look the city up first)
add_favorite_nocheck(w) ==
    LET city == IF Truthy(current_city) THEN current_city[1] ELSE Strip(city_var)
    IN /\ w \in env.writes
       /\ city # ""
       /\ favorites' = Append(favorites, city)
       /\ favFile' = save_favorites(favFile, favorites', w)
       /\ ev' = [Ev("add_favorite", "ui", {}, 0) EXCEPT !.dlg = {"Saved"}, !.wfav = w]
       /\ UNCHANGED <<units, current_city, city_var, favs_var, lastFile, icons, status, shown,
                      panel, startup>>
       /\ UNCHANGED <<fetches, queue, outcome, finished, env, call>>

add_favorite(w) ==
    LET city == IF Truthy(current_city) THEN current_city[1] ELSE Strip(city_var)
    IN /\ w \in env.writes
       /\ IF city = ""
          THEN /\ w = SafeWrite
               /\ Dialog("add_favorite", "No city to add")
               /\ UNCHANGED <<favorites, favFile>>
          ELSE IF ~InSeq(city, favorites)
               THEN /\ favorites' = Append(favorites, city)
                    /\ favFile' = save_favorites(favFile, favorites', w)
                    /\ ev' = [Ev("add_favorite", "ui", {}, 0) EXCEPT !.dlg = {"Saved"}, !.wfav = w]
               ELSE /\ w = SafeWrite
                    /\ Dialog("add_favorite", "already in favorites")
                    /\ UNCHANGED <<favorites, favFile>>
       /\ UNCHANGED <<units, current_city, city_var, favs_var, lastFile, icons, status, shown,
                      panel, startup>>
       /\ NoThread

remove_favorite(w) ==
    LET sel == Strip(favs_var)
    IN /\ w \in env.writes
       /\ IF sel = ""
          THEN /\ w = SafeWrite
               /\ Dialog("remove_favorite", "Choose a favorite")
               /\ UNCHANGED <<favorites, favFile>>
          ELSE IF InSeq(sel, favorites)
               THEN /\ favorites' = Remove(favorites, sel)
                    /\ favFile' = save_favorites(favFile, favorites', w)
                    /\ ev' = [Ev("remove_favorite", "ui", {}, 0) EXCEPT !.dlg = {"Removed"}, !.wfav = w]
               ELSE /\ w = SafeWrite
                    /\ ev' = Ev("remove_favorite", "ui", {}, 0)
                    /\ UNCHANGED <<favorites, favFile>>
       /\ UNCHANGED <<units, current_city, city_var, favs_var, lastFile, icons, status, shown,
                      panel, startup>>
       /\ NoThread

\* the downloads among tried that can succeed
Got(tried) == {g \in SUBSET tried : /\ (FALSE \notin env.downloads => g = tried)
                                    /\ (TRUE \notin env.downloads => g = {})}

\* open_favorites_panel: for every favorite a current-weather request and the
\* download of its icon, all inline; tried are the icons asked for that are not
\* cached, got those whose download succeeds
open_favorites_panel ==
    /\ IF favorites = <<>>
       THEN /\ Dialog("open_favorites_panel", "No favorites saved")
            /\ UNCHANGED <<icons, panel>>
       ELSE \E tried \in SUBSET (IconCodes \ icons) : \E got \in Got(tried) :
               /\ icons' = icons \cup got
               /\ panel' = panel \cup {favorites[i] : i \in 1..Len(favorites)}
               /\ ev' = Ev("open_favorites_panel", "ui",
                           {"weather"} \cup (IF tried # {} THEN {"icon"} ELSE {}), 0)
    /\ UNCHANGED <<units, current_city, city_var, favs_var, favorites, favFile, lastFile, status,
                   shown, startup>>
    /\ NoThread

\* _open_favorite_details: the Details button of city in an open panel; the
\* current-weather and forecast requests inline, an error dialog when one
\* raises, else the icon
_open_favorite_details(city) ==
    /\ city \in panel
    /\ \/ /\ ev' = [Ev("_open_favorite_details", "ui", {"weather"}, 0) EXCEPT !.dlg = {"Error"}]
          /\ UNCHANGED icons
       \/ /\ ev' = [Ev("_open_favorite_details", "ui", {"weather", "forecast"}, 0) EXCEPT
                       !.dlg = {"Error"}]
          /\ UNCHANGED icons
       \/ \E tried \in SUBSET (IconCodes \ icons) : \E got \in Got(tried) :
               /\ icons' = icons \cup got
               /\ ev' = Ev("_open_favorite_details", "ui",
                           {"weather", "forecast"} \cup (IF tried # {} THEN {"icon"} ELSE {}), 0)
    /\ UNCHANGED <<units, current_city, city_var, favs_var, favorites, favFile, lastFile, status,
                   shown, panel, startup>>
    /\ NoThread

\* _startup_sequence, 200 ms after construction
_startup_sequence ==
    /\ startup = "_startup_sequence"
    /\ startup' = "ask_and_fetch"
    /\ LET last == load_last_city(lastFile)
       IN IF Truthy(last)
          THEN city_var' = last[1] /\ _load_weather_async(last[1], FALSE)
          ELSE UNCHANGED <<city_var, status>> /\ NoThread
    /\ UiStep("_startup_sequence")
    /\ UNCHANGED <<units, current_city, favs_var, favorites, favFile, lastFile, icons, shown, panel>>

\* ask_and_fetch, 400 ms later: the user accepts or declines the auto-detect
ask_and_fetch(allow) ==
    /\ startup = "ask_and_fetch"
    /\ startup' = "done"
    /\ IF allow THEN StartThread("ip", "", TRUE) ELSE NoThread
    /\ Dialog("ask_and_fetch", "Location Access")
    /\ UNCHANGED <<units, current_city, city_var, favs_var, favorites, favFile, lastFile, icons,
                   status, shown, panel>>

\* ------------------------------------------- functions followed on their own
appVars == <<units, current_city, city_var, favs_var, favorites, favFile, lastFile, icons,
             status, shown, panel, startup, fetches, queue, outcome, finished, ev, env>>

\* the application at rest beside the call that is followed
AtRest == InitWith(Env({"ok"}, {TRUE}, FALSE, 0), {FileMissing(<<>>)}, {FileMissing("")}, "done")

\* detect_city_via_ip on the answers the three providers would give, one pass
\* of its loop at a time: i is the endpoint the next pass asks, queried the
\* endpoints asked so far
DetectCall(answers) ==
    [fn |-> "detect_city_via_ip", answers |-> answers, i |-> 1, queried |-> <<>>,
     done |-> FALSE, result |-> None]

\* (a loop that goes on after a provider named a city)
QueryProvider_goes_on ==
    /\ call.fn = "detect_city_via_ip" /\ ~call.done /\ call.i <= Len(Endpoints)
    /\ LET city == CityOf(call.answers[call.i])
       IN call' = [call EXCEPT !.queried = Append(@, Endpoints[call.i]),
                               !.result = IF city # None THEN city ELSE @,
                               !.i = @ + 1]
    /\ UNCHANGED appVars

\* one pass: the request, then return city.strip() or go on to the next endpoint
QueryProvider ==
    /\ call.fn = "detect_city_via_ip" /\ ~call.done /\ call.i <= Len(Endpoints)
    /\ LET city == CityOf(call.answers[call.i])
       IN call' = [call EXCEPT !.queried = Append(@, Endpoints[call.i]),
                               !.done = city # None,
                               !.result = city,
                               !.i = IF city # None THEN @ ELSE @ + 1]
    /\ UNCHANGED appVars

\* the loop is exhausted: return None
ReturnNone ==
    /\ call.fn = "detect_city_via_ip" /\ ~call.done /\ call.i > Len(Endpoints)
    /\ call' = [call EXCEPT !.done = TRUE]
    /\ UNCHANGED appVars

NextDetect ==
    \/ QueryProvider
    \/ ReturnNone
InitDetect ==
    /\ AtRest
    /\ call \in {DetectCall(a) : a \in [1..Len(Endpoints) -> AllProviderAnswers]}
SpecDetect == InitDetect /\ [][NextDetect]_vars

\* fetch_weather_by_city on the document _get_json returned for city
NormalizeCall(data, city) ==
    [fn |-> "fetch_weather_by_city", data |-> data, city |-> city, done |-> FALSE,
     result |-> NoCur]
Normalize ==
    /\ call.fn = "fetch_weather_by_city" /\ ~call.done
    /\ call' = [call EXCEPT !.done = TRUE, !.result = fetch_weather_by_city(call.data, call.city)]
    /\ UNCHANGED appVars
NextNormalize ==
    \/ Normalize
InitNormalize ==
    /\ AtRest
    /\ call \in {NormalizeCall(d, "Lagos") : d \in AllWeatherDocs}
SpecNormalize == InitNormalize /\ [][NextNormalize]_vars

\* The forecasts the daily summaries are followed on. An entry of the "list"
\* array, with or without a temperature:
Item(day, time, t, d, icon) ==
    [dt_txt |-> Some([date |-> day, time |-> time]),
     main |-> Some([temp |-> t, humidity |-> Some(Int_(50))]),
     weather |-> Some([description |-> Some(d), icon |-> Some(icon)])]
\* an entry without a timestamp
Undated ==
    [dt_txt |-> None, main |-> FullMain(99), weather |-> FullWeather("clear sky")]
T(n) == Some(Int_(n))
\* the shapes of a day: its entries in the order the provider lists them
DayShapes(day) ==
    { <<>>,
      <<Item(day, Noon, T(20), "light rain", "10d")>>,
      <<Item(day, "09:00:00", T(10), "clear sky", "01d"), Item(day, Noon, T(12), "light rain", "10d"),
        Item(day, "15:00:00", T(14), "clear sky", "01d")>>,
      <<Item(day, "09:00:00", None, "clear sky", "01d"), Item(day, Noon, None, "light rain", "10d")>>,
      <<Item(day, "09:00:00", T(10), "light rain", "10d"), Item(day, "15:00:00", T(12), "clear sky", "01d"),
        Item(day, "21:00:00", T(14), "clear sky", "01d")>>,
      <<Item(day, "09:00:00", T(0 - 1), "clear sky", "01d"), Item(day, "15:00:00", T(0), "light rain", "10d")>>,
      <<Item(day, "09:00:00", T(10), "clear sky", "01d"), Item(day, "15:00:00", T(11), "light rain", "10d"),
        Item(day, "21:00:00", T(11), "clear sky", "01d")>>,
      <<Item(day, "00:00:00", T(10), "clear sky", "01d"), Item(day, "06:00:00", T(10), "clear sky", "01d"),
        Item(day, "18:00:00", T(10), "clear sky", "01d"), Item(day, "21:00:00", T(11), "light rain", "10d")>>,
      <<Item(day, "09:00:00", None, "light rain", "10d"), Item(day, "15:00:00", T(11), "clear sky", "01d")>>,
      <<Item(day, "09:00:00", None, "clear sky", "01d"), Item(day, "15:00:00", None, "light rain", "10d")>> }
PlainShapes(day) == { <<>>, <<Item(day, Noon, T(20), "light rain", "10d")>> }
ShapesOf(day) == IF day <= RichDates THEN DayShapes(day) ELSE PlainShapes(day)

\* the lists that hold, day after day from day on, one shape of each day
RECURSIVE ListsFrom(_)
ListsFrom(day) ==
    IF day > MaxDates THEN {<<>>}
    ELSE {h \o t : h \in ShapesOf(day), t \in ListsFrom(day + 1)}
Reverse(seq) == [i \in 1..Len(seq) |-> seq[Len(seq) + 1 - i]]
\* the days in order, or the whole list backwards behind an entry without a
\* timestamp
ForecastLists == ListsFrom(1) \cup {<<Undated>> \o Reverse(l) : l \in ListsFrom(1)}

\* the daily summaries _update_ui computes from the forecast of list
SummaryCall(list) == [fn |-> "summaries", list |-> list, done |-> FALSE, result |-> <<>>]
Summarize ==
    /\ call.fn = "summaries" /\ ~call.done
    /\ call' = [call EXCEPT !.done = TRUE, !.result = summaries(fetch_forecast_by_city(call.list))]
    /\ UNCHANGED appVars
NextSummary ==
    \/ Summarize
InitSummary ==
    /\ AtRest
    /\ call \in {SummaryCall(l) : l \in ForecastLists}
SpecSummary == InitSummary /\ [][NextSummary]_vars

\* ------------------------------------------------------------------- spec
MaxThreads == SetMax({MaxFetches, MaxRace, MaxFavFetches, MaxPanelFetches, MaxAlertFetches,
                      MaxPersistFetches})

\* the fetches: every action that starts one, the workers and the callbacks
Next ==
    \/ \E s \in Typed : TypeCity(s)
    \/ search
    \/ refresh
    \/ \E u \in UnitSystems : _units_changed(u)
    \/ \E c \in Cities : _on_fav_selected(c)
    \/ _startup_sequence
    \/ \E allow \in BOOLEAN : ask_and_fetch(allow)
    \/ \E f \in 1..MaxThreads : ReadUnits(f)
    \/ \E f \in 1..MaxThreads : _load_weather_thread(f)
    \/ \E f \in 1..MaxThreads : _fetch_ip_and_update(f)
    \/ RunCallback

\* from the construction of the window on, with file writes that can fail
Init ==
    /\ InitWith(Env(WriteOutcomes, {TRUE}, FALSE, MaxFetches), {FileOk(<<"Paris">>)}, InitLastFiles,
                "_startup_sequence")
    /\ call = NoCall
Spec == Init /\ [][Next]_vars

\* the notifications: one favorite fetched while the user turns the unit
\* selector, on documents around every threshold
NextAlerts ==
    \/ \E c \in Cities : _on_fav_selected(c)
    \/ \E u \in UnitSystems : _units_changed(u)
    \/ \E f \in 1..MaxThreads : ReadUnits(f)
    \/ \E f \in 1..MaxThreads : _load_weather_thread(f)
    \/ RunCallback
InitAlerts ==
    /\ InitWith([Env({"ok"}, {TRUE}, FALSE, MaxAlertFetches) EXCEPT !.alerts = TRUE],
                {FileOk(<<"Paris">>)}, {FileMissing("")}, "done")
    /\ call = NoCall
SpecAlerts == InitAlerts /\ [][NextAlerts]_vars

\* the two files in every condition at startup, and writes that can fail: the
\* startup sequence, the favorites and the fetches that save the last city
AllFavFiles ==
    {FileMissing(<<>>), FileUnreadable(<<"Lagos">>), FileCorrupt(<<>>), FileOk(<<"Paris">>)}
AllLastFiles == {FileMissing(""), FileUnreadable("Lagos"), FileCorrupt(""), FileOk("Paris")}
NextPersist ==
    \/ _startup_sequence
    \/ \E allow \in BOOLEAN : ask_and_fetch(allow)
    \/ \E c \in Cities : _on_fav_selected(c)
    \/ \E w \in WriteOutcomes : add_favorite(w)
    \/ \E w \in WriteOutcomes : remove_favorite(w)
    \/ \E f \in 1..MaxThreads : ReadUnits(f)
    \/ \E f \in 1..MaxThreads : _load_weather_thread(f)
    \/ \E f \in 1..MaxThreads : _fetch_ip_and_update(f)
    \/ RunCallback
InitPersist ==
    /\ InitWith(Env(WriteOutcomes, {TRUE}, FALSE, MaxPersistFetches), AllFavFiles, AllLastFiles,
                "_startup_sequence")
    /\ call = NoCall
SpecPersist == InitPersist /\ [][NextPersist]_vars

\* fetches racing one another: the user picks favorites and searches, after a
\* startup without a last city and with the auto-detect declined
NextRace ==
    \/ \E s \in Typed : TypeCity(s)
    \/ search
    \/ \E c \in Cities : _on_fav_selected(c)
    \/ \E f \in 1..MaxThreads : ReadUnits(f)
    \/ \E f \in 1..MaxThreads : _load_weather_thread(f)
    \/ RunCallback
InitRace ==
    /\ InitWith(Env({"ok"}, {TRUE}, FALSE, MaxRace), {FileOk(<<"Paris", "Lagos">>)},
                {FileMissing("")}, "done")
    /\ call = NoCall
SpecRace == InitRace /\ [][NextRace]_vars

\* the favorites: add, remove and select, with file writes that can fail, after
\* the same startup
NextFav ==
    \/ \E s \in Typed : TypeCity(s)
    \/ \E c \in Cities : _on_fav_selected(c)
    \/ \E w \in WriteOutcomes : add_favorite(w)
    \/ \E w \in WriteOutcomes : remove_favorite(w)
    \/ \E f \in 1..MaxThreads : ReadUnits(f)
    \/ \E f \in 1..MaxThreads : _load_weather_thread(f)
    \/ RunCallback
InitFav ==
    /\ InitWith(Env(WriteOutcomes, {TRUE}, FALSE, MaxFavFetches), InitFavFiles,
                {FileMissing("")}, "done")
    /\ call = NoCall
SpecFav == InitFav /\ [][NextFav]_vars

\* the favorites panel and its details beside a fetch, with icon downloads that
\* can fail
NextPanel ==
    \/ \E c \in Cities : _on_fav_selected(c)
    \/ open_favorites_panel
    \/ \E c \in Cities : _open_favorite_details(c)
    \/ \E f \in 1..MaxThreads : ReadUnits(f)
    \/ \E f \in 1..MaxThreads : _load_weather_thread(f)
    \/ RunCallback
InitPanel ==
    /\ InitWith(Env({"ok"}, BOOLEAN, TRUE, MaxPanelFetches), InitFavFiles, {FileMissing("")}, "done")
    /\ call = NoCall
SpecPanel == InitPanel /\ [][NextPanel]_vars

\* ----------------------------------------------------------------- claims
Handlers == {"_update_ui", "_handle_error", "showwarning", "ip_lambda"}
Ran(f) == f \in DOMAIN outcome /\ outcome[f].res # ""
Quiescent == queue = <<>> /\ \A f \in DOMAIN fetches : fetches[f].pc = "done"
Last(seq) == seq[Len(seq)]

\* C1: a completion handler (_update_ui, _handle_error, the location warning,
\* the lambda of the auto-detect) runs only on the UI thread, as the oldest
\* callback of the UI's queue; a worker thread only reads the units and calls
\* after(), and its steps change nothing the UI owns.
HandlersRunOnUiThread ==
    /\ [](ev.op \in Handlers => ev.thread = "ui")
    /\ [](ev.thread = "worker" => ev.op \in {"units.get", "after"})
    /\ [][ev'.thread = "worker" => UNCHANGED uiVars]_vars
    /\ [][ev'.op \in Handlers =>
            queue # <<>> /\ queue' = Tail(queue) /\ ev'.f = Head(queue).f]_vars
\* the render of a fetch, on the UI thread, after its worker ended
RenderRanOnUiThread ==
    /\ ev.op = "_update_ui" /\ ev.thread = "ui"
    /\ fetches[ev.f].pc = "done" /\ current_city # None

\* C2: every network request (current weather, forecast, IP detection, icon
\* download) is made by a worker thread.
RequestsOnlyOnWorkers == ev.net # {} => ev.thread = "worker"

\* C3: a fetch whose current-weather request succeeded and whose forecast
\* request failed is rendered, with an empty forecast, on either path.
ForecastFailureStillRenders ==
    /\ \A f \in DOMAIN outcome :
          (outcome[f].fc = "fail" /\ outcome[f].res # "") => outcome[f].res = "rendered"
    /\ (ev.op = "_update_ui" /\ ev.fc = "fail") => (shown.days = <<>> /\ shown.next = None)

\* C4: once the worker of a fetch has ended and its callback has run, the
\* fetch was rendered or errored (the location warning counted as the error of
\* the auto-detect); an error handler leaves the status "Error".
ExactlyOneOutcome ==
    /\ \A f \in DOMAIN fetches :
          (fetches[f].pc = "done" /\ ~\E i \in 1..Len(queue) : queue[i].f = f)
             => outcome[f].res \in {"rendered", "errored", "warned"}
    /\ ev.op = "_handle_error" => status = "Error"

RenderedOf(seq) == SelectSeq(seq, LAMBDA f : outcome[f].res = "rendered")
ErrorHandlerChangesOnlyStatus ==
    [][ev'.op = "_handle_error" =>
          /\ status' = "Error"
          /\ ev'.dlg \in {{"No Internet"}, {"Error"}}
          /\ UNCHANGED <<current_city, shown, lastFile, favorites, favFile, units, city_var,
                         favs_var, icons, panel>>]_vars
\* an error after a render: the card still shows the rendered city
ErrorAfterRender ==
    /\ ev.op = "_handle_error" /\ status = "Error"
    /\ current_city = Some("Paris") /\ shown.city = "Paris, XX"
    /\ lastFile = FileOk("Paris")

\* C7: the suffix of the rendered temperature and the unit system of the
\* alert thresholds are those of the request that produced the temperature.
RenderedUnitIsRequestedUnit ==
    ev.op = "_update_ui" =>
        /\ shown.temp[3] = unit_label(ev.sent)
        /\ ev.dlg = Notifications(ev.cur, ev.sent)

\* C8 as claimed: after every render with save_last, the last-city file holds
\* the city just rendered.
LastCityIsRenderedCity ==
    (ev.op = "_update_ui" /\ ev.save_last) => lastFile = FileOk(current_city[1])
\* C8 as amended: after every render with save_last whose write succeeded, the
\* last-city file holds the city just rendered; only a render with save_last
\* writes the file (the startup reload, a declined auto-detect, an error do not),
\* so the file holds the city of the latest such render whose write succeeded,
\* unless a later write failed.
LastCityIsRenderedCityWhenWritten ==
    /\ []((ev.op = "_update_ui" /\ ev.save_last /\ ev.wlast = "ok")
             => lastFile = FileOk(current_city[1]))
    /\ [](ev.wlast # "" => (ev.op = "_update_ui" /\ ev.save_last))
    /\ [][lastFile' # lastFile => ev'.wlast \in {"ok", "dump_fails"}]_vars
\* a render with save_last replaced the persisted city
LastCityReplaced ==
    /\ ev.op = "_update_ui" /\ ev.save_last /\ ev.wlast = "ok"
    /\ current_city = Some("Lagos") /\ lastFile = FileOk("Lagos")

\* C9: add_favorite of a city in the list and remove_favorite of a city not in
\* it change neither the list nor the file, and the list never holds a city
\* twice.
AddTarget == IF Truthy(current_city) THEN current_city[1] ELSE Strip(city_var)
NoDuplicates(seq) == \A i, j \in 1..Len(seq) : seq[i] = seq[j] => i = j
FavoritesIdempotent ==
    /\ [](NoDuplicates(favorites))
    /\ [][(ev'.op = "add_favorite" /\ InSeq(AddTarget, favorites))
             => UNCHANGED <<favorites, favFile>>]_vars
    /\ [][(ev'.op = "remove_favorite" /\ ~InSeq(Strip(favs_var), favorites))
             => UNCHANGED <<favorites, favFile>>]_vars
\* add_favorite found the city in a list of two
AddedTwice ==
    /\ ev.op = "add_favorite" /\ ev.dlg = {"already in favorites"}
    /\ Len(favorites) = 2 /\ InSeq(AddTarget, favorites)

\* C10: every add or remove that changes the list writes the file, and when
\* the write succeeds the file holds the list, in its order; a step that does
\* not change the list does not write the file.
FavoritesSavedOnMutation ==
    /\ [](ev.wfav = "ok" => favFile = FileOk(favorites))
    /\ [][favorites' # favorites => ev'.wfav # ""]_vars
    /\ [][favorites' = favorites => (favFile' = favFile /\ ev'.wfav = "")]_vars
\* a city was removed from a list of two and the file follows
RemovedAndSaved ==
    /\ ev.op = "remove_favorite" /\ ev.wfav = "ok"
    /\ Len(favorites) = 1 /\ favFile = FileOk(favorites)

\* C11 as claimed: the result is the city of the first provider that answers
\* with a non-blank city string, the providers up to that one were queried in
\* the fixed order and no other; None, with all three queried, when there is
\* no such provider.
Names(v) == v.k = "str" /\ Strip(v.s) # ""
Least(S) == CHOOSE k \in S : \A j \in S : k <= j
FirstCityWins ==
    (call.fn = "detect_city_via_ip" /\ call.done) =>
        LET S == {k \in 1..Len(Endpoints) :
                    ~call.answers[k].raises /\ Names(call.answers[k].city)}
        IN IF S = {}
           THEN call.result = None /\ call.queried = Endpoints
           ELSE /\ call.result = Some(Strip(call.answers[Least(S)].city.s))
                /\ call.queried = SubSeq(Endpoints, 1, Least(S))
\* C11 as amended: a provider yields a place when it answers and the first
\* non-empty value among its city, region and city_name is a non-blank string;
\* the providers are queried in the fixed order, one only after every earlier
\* one yielded nothing, none after the first that yields; the result is that
\* place, stripped, or None (all three queried) when no provider yields.
Place(a) ==
    IF JTruthy(a.city) THEN a.city ELSE IF JTruthy(a.region) THEN a.region ELSE a.city_name
Yields(a) == ~a.raises /\ Names(Place(a))
FirstPlaceWins ==
    call.fn = "detect_city_via_ip" =>
        LET S == {k \in 1..Len(Endpoints) : Yields(call.answers[k])}
            n == Len(call.queried)
        IN /\ call.queried = SubSeq(Endpoints, 1, n)
           /\ \A k \in 1..n : (k < n \/ ~call.done) => ~Yields(call.answers[k])
           /\ call.done =>
                 /\ IF S = {}
                    THEN call.result = None /\ n = Len(Endpoints)
                    ELSE /\ call.result = Some(Strip(Place(call.answers[Least(S)]).s))
                         /\ n = Least(S)
                 /\ call.result = detect_city_via_ip(call.answers)
\* the first provider raised, the second has no city but a region: the region
\* is returned, stripped, and the third provider is not queried
RegionStandsIn ==
    /\ call.fn = "detect_city_via_ip" /\ call.done
    /\ call.answers[1].raises
    /\ call.answers[2] = Answer(JStr(""), JStr("Lagos "), JNull)
    /\ call.answers[3] = Answer(JStr("Paris"), JNull, JNull)
    /\ call.result = Some("Lagos")
    /\ call.queried = <<"ip-api.com", "ipinfo.io">>

\* C12: whichever of main, weather, wind and sys the response lacks, the
\* normalization returns a record whose fields from a missing object are null
\* (temperature, humidity, pressure, wind speed, sunrise, sunset), "N/A"
\* (description) or empty (icon, country), and whose fields from a present
\* object are the provider's values.
FromObject(obj, key, result, placeholder) ==
    IF obj = None THEN result = placeholder
    ELSE IF obj[1][key] = None THEN result = placeholder
    ELSE result = obj[1][key]
FromText(obj, key, result, placeholder) ==
    IF obj = None THEN result = placeholder
    ELSE IF obj[1][key] = None THEN result = placeholder
    ELSE result = obj[1][key][1]
MissingObjectsGiveNulls ==
    (call.fn = "fetch_weather_by_city" /\ call.done) =>
        LET d == call.data
            r == call.result
        IN /\ FromObject(d.main, "temp", r.temperature, None)
           /\ FromObject(d.main, "humidity", r.humidity, None)
           /\ FromObject(d.main, "pressure", r.pressure, None)
           /\ FromObject(d.wind, "speed", r.wind_speed, None)
           /\ FromObject(d.sys, "sunrise", r.sunrise, None)
           /\ FromObject(d.sys, "sunset", r.sunset, None)
           /\ FromText(d.sys, "country", r.country, "")
           /\ FromText(d.weather, "description", r.description, "N/A")
           /\ FromText(d.weather, "icon", r.icon, "")
           /\ r.city = IF d.name = None THEN call.city ELSE d.name[1]
\* a response without main and sys but with weather and wind
OnlyWeatherAndWind ==
    /\ call.fn = "fetch_weather_by_city" /\ call.done
    /\ call.data.main = None /\ call.data.sys = None
    /\ call.data.weather = FullWeather("clear sky") /\ call.data.wind = FullWind
    /\ call.result.temperature = None /\ call.result.sunrise = None
    /\ call.result.country = ""
    /\ call.result.description = "clear sky" /\ call.result.wind_speed = Some(Int_(3))

\* C13: a render of a record without temperature (humidity) shows the dash
\* placeholder for it, not a zero, an empty string or the text of a null.
MissingNumbersShowPlaceholder ==
    ev.op = "_update_ui" =>
        /\ (ev.cur.temperature = None => shown.temp[2] = "--")
        /\ (ev.cur.humidity = None => shown.hum[2] = "--")

\* C14: a render raises the rain alert exactly when the description has
\* "rain", "drizzle" or "shower" in it, the heat alert exactly when the unit
\* system is metric and the temperature is at least 35 or imperial and at
\* least 95, the cold alert exactly when it is metric and at most 0, nothing
\* else, and no threshold alert under standard; metric, 36 and "clear sky"
\* give the heat alert alone; the handlers of a failed fetch raise no alert.
Alerts == {"Rain alert", "Heat alert", "Cold alert"}
AtLeast(t, n) == t # None /\ (IF t[1].k = "int" THEN t[1].v >= n ELSE t[1].v >= 10 * n)
AtMost(t, n) == t # None /\ (IF t[1].k = "int" THEN t[1].v <= n ELSE t[1].v <= 10 * n)
AlertsFollowPolicy ==
    /\ ev.op = "_update_ui" =>
          LET t == ev.cur.temperature
              d == ev.cur.description
          IN /\ ev.dlg \subseteq Alerts
             /\ "Rain alert" \in ev.dlg <=> HasWetWord(d)
             /\ "Heat alert" \in ev.dlg <=>
                    \/ units = "metric" /\ AtLeast(t, 35)
                    \/ units = "imperial" /\ AtLeast(t, 95)
             /\ "Cold alert" \in ev.dlg <=> (units = "metric" /\ AtMost(t, 0))
             /\ units = "standard" => ev.dlg \subseteq {"Rain alert"}
             /\ (units = "metric" /\ t = Some(Int_(36)) /\ d = "clear sky")
                    => ev.dlg = {"Heat alert"}
    /\ ev.op # "_update_ui" => ev.dlg \cap Alerts = {}
\* Paris at 36 under a clear sky, metric: the card reads 36 degC and the heat
\* alert is raised alone
HeatWithoutRain ==
    /\ ev.op = "_update_ui" /\ units = "metric"
    /\ ev.cur.temperature = Some(Int_(36)) /\ ev.cur.description = "clear sky"
    /\ shown.city = "Paris, XX" /\ shown.temp = <<"Temperature: ", "36", "degC">>
    /\ ev.dlg = {"Heat alert"}

\* the entries of the followed forecast, its dates, the earliest five of them,
\* and the entries of a date (all, at noon, with a temperature)
F == fetch_forecast_by_city(call.list)
Dates == {F[j].date[1] : j \in {k \in 1..Len(F) : F[k].date # None}}
Earliest == {d \in Dates : Cardinality({e \in Dates : e < d}) < 5}
EntriesOf(d) == {j \in 1..Len(F) : F[j].date = Some(d)}
NoonsOf(d) == {j \in EntriesOf(d) : F[j].dt_txt[1].time = "12:00:00"}
WithTemp(d) == {j \in EntriesOf(d) : F[j].temperature # None}
RECURSIVE TotalOf(_)
TotalOf(J) == IF J = {} THEN 0 ELSE F[Least(J)].temperature[1].v + TotalOf(J \ {Least(J)})
Abs(x) == IF x < 0 THEN 0 - x ELSE x

\* C15: there is one summary for each of the earliest five dates, in ascending
\* order, and the summary of a date that has an entry at 12:00:00 is that
\* entry: its temperature, description and icon.
NoonEntryIsTheSummary ==
    (call.fn = "summaries" /\ call.done) =>
        LET R == call.result
        IN /\ Len(R) = Cardinality(Earliest)
           /\ \A i \in 1..Len(R) : R[i].date \in Earliest
           /\ \A i \in 1..(Len(R) - 1) : R[i].date < R[i + 1].date
           /\ \A i \in 1..Len(R) :
                 NoonsOf(R[i].date) # {} =>
                    LET e == F[Least(NoonsOf(R[i].date))]
                    IN /\ R[i].temperature = e.temperature
                       /\ R[i].description = e.description
                       /\ R[i].icon = e.icon
\* six dates listed backwards, the first with its noon entry between two
\* others: five summaries, the first the noon entry of the first date
NoonAmongOthers ==
    /\ call.fn = "summaries" /\ call.done
    /\ Cardinality(Dates) = 6 /\ Len(call.result) = 5
    /\ F[Len(F)].date = Some(1) /\ Cardinality(EntriesOf(1)) = 3
    /\ call.result[1] = [date |-> 1, temperature |-> Some(Int_(12)),
                          description |-> "light rain", icon |-> "10d"]

\* C16: the summary of a date without an entry at 12:00:00 has the description
\* and icon of the first entry of the date and, for temperature, the mean of
\* the temperatures of the date to the nearest tenth (12.0 for 10, 12, 14), or
\* nothing when no entry of the date has a temperature.
NoNoonGivesTheMean ==
    (call.fn = "summaries" /\ call.done) =>
        \A i \in 1..Len(call.result) :
            LET s == call.result[i]
                J == WithTemp(s.date)
            IN NoonsOf(s.date) = {} =>
                 /\ s.description = F[Least(EntriesOf(s.date))].description
                 /\ s.icon = F[Least(EntriesOf(s.date))].icon
                 /\ J = {} => s.temperature = None
                 /\ J # {} =>
                       /\ s.temperature # None
                       /\ s.temperature[1].k = "float"
                       /\ 2 * Abs(s.temperature[1].v * Cardinality(J) - 10 * TotalOf(J))
                             <= Cardinality(J)
                 /\ {F[j].temperature : j \in EntriesOf(s.date)} = {T(10), T(12), T(14)}
                       => PyStr(s.temperature) = "12.0"
\* a date with entries at 10, 12 and 14 and none at noon: 12.0, with the
\* description and icon of its first entry
MeanOfThree ==
    /\ call.fn = "summaries" /\ call.done
    /\ Len(call.result) >= 2
    /\ F[1].date = Some(1) /\ F[1].description = "light rain"
    /\ {F[j].temperature : j \in EntriesOf(1)} = {T(10), T(12), T(14)}
    /\ call.result[1] = [date |-> 1, temperature |-> Some(Float1(120)),
                          description |-> "light rain", icon |-> "10d"]

\* C17: the favorites loaded at construction are those of a readable, well
\* formed favorites.json and empty otherwise; the startup sequence reloads the
\* city of a readable, well formed last_city.json and nothing otherwise, and
\* runs whatever the files hold; a save that fails ends its action as one that
\* succeeds does, the list and the current city as the action set them.
FailedWrites == {"open_fails", "dump_fails"}
PersistenceNeverBlocks ==
    /\ [](ev.op = "__init__" => favorites = IF favFile.st = "ok" THEN favFile.v ELSE <<>>)
    /\ []((startup = "_startup_sequence" /\ fetches = <<>>) => ENABLED _startup_sequence)
    /\ [][(startup = "_startup_sequence" /\ startup' = "ask_and_fetch") =>
            IF lastFile.st = "ok"
            THEN /\ city_var' = lastFile.v
                 /\ Len(fetches') = Len(fetches) + 1
                 /\ Last(fetches').city = lastFile.v
            ELSE UNCHANGED <<city_var, status, fetches>>]_vars
    /\ [][ev'.wfav \in FailedWrites =>
            /\ favorites' # favorites
            /\ ev'.dlg \in {{"Saved"}, {"Removed"}}
            /\ favFile'.st # "ok" \/ favFile' = favFile]_vars
    /\ [][ev'.wlast \in FailedWrites =>
            /\ current_city' = Some(ev'.cur.city)
            /\ shown'.city # "--"
            /\ status' = "Last updated"
            /\ lastFile'.st # "ok" \/ lastFile' = lastFile]_vars
\* both files were unreadable at startup, nothing was reloaded; a detected city
\* was rendered and added to the favorites, and neither write went through
NothingPersisted ==
    /\ ev.op = "add_favorite" /\ ev.wfav = "open_fails"
    /\ favorites = <<"Paris">> /\ favFile = FileUnreadable(<<"Lagos">>)
    /\ current_city = Some("Paris") /\ lastFile = FileUnreadable("Lagos")
    /\ startup = "done"

\* C18: while the status reads "Fetching..." a fetch started by
\* _load_weather_async is pending: its worker has not ended or its callback
\* has not run.
Pending(f) ==
    /\ fetches[f].kind = "async"
    /\ fetches[f].pc # "done" \/ \E i \in 1..Len(queue) : queue[i].f = f
====
